---- MODULE Spec2Model ----
(***************************************************************************)
(* Model of backend/extract_keywords.py: a script that reads standard      *)
(* input, strips it, hands it to yake.KeywordExtractor(n=2, top=10) and    *)
(* prints one JSON line, {"keywords": [...]} or {"error": "<message>"}.    *)
(*                                                                         *)
(* Text is a sequence of characters; a character is a one-character        *)
(* string, except the non-ASCII letter e-acute, written "U+00E9".          *)
(* An optional Python value is a sequence of length 0 (unbound) or 1.      *)
(*                                                                         *)
(* The yake library is not part of the repository.  Its extraction call is *)
(* an environment step: it either raises an error derived from Exception   *)
(* or returns a ranked list of (phrase, score) pairs that honours the two  *)
(* constructor parameters (at most `top` pairs, phrases of at most `n`     *)
(* words); a phrase may be an object json cannot encode.  Asynchronous     *)
(* signals (KeyboardInterrupt, a kill) are not modelled.                   *)
(*                                                                         *)
(* Spec      : the input and the library are arbitrary, so every failure   *)
(*             the input or the library can cause happens: the read, the   *)
(*             emptiness test, the extraction and the serialisation may    *)
(*             raise.  The import and the standard streams work.           *)
(* FairSpec  : Spec with the interpreter always taking its next step.      *)
(* FaultSpec : Spec plus failures of the import, of a write to standard    *)
(*             output in line 17 and of the error handler.                 *)
(***************************************************************************)
EXTENDS Naturals, Sequences, FiniteSets

VARIABLES
    pc,           \* position of the script
    stdin,        \* what the parent process sent: [decodable, text]
    input_text,   \* line 12: optional stripped text
    keywords,     \* line 16: optional list of phrase strings
    e,            \* line 19: optional caught exception
    stdout,       \* characters written to standard output
    stderr,       \* tracebacks written to standard error (class names)
    exit_status,  \* optional process exit status
    events,       \* history: "read", "extract", "write", "exit" in order
    calls,        \* history: extractor invocations [n, top, text]
    returned,     \* history: optional ranked list the extractor returned
    raised        \* history: exceptions raised, [site, exc], in order

vars == <<pc, stdin, input_text, keywords, e, stdout, stderr, exit_status,
          events, calls, returned, raised>>

----------------------------------------------------------------------------
(* Bounds of the model *)

\* longest standard input, in characters
MaxLen == 5

----------------------------------------------------------------------------
(* Characters and text *)

\* characters str.strip() removes (those of them the model's inputs use)
Whitespace == {" ", "\n", "\t"}

\* characters standard input is drawn from
StdinChars == {"a", " ", "\n"}

Texts == UNION {[1..k -> StdinChars] : k \in 0..MaxLen}

Stdins ==
    {[decodable |-> TRUE, text |-> t] : t \in Texts}
        \cup {[decodable |-> FALSE, text |-> <<>>]}

RECURSIVE lstrip(_)
\* str.lstrip(): drop leading whitespace
lstrip(s) ==
    IF s # <<>> /\ Head(s) \in Whitespace THEN lstrip(Tail(s)) ELSE s

RECURSIVE rstrip(_)
\* str.rstrip(): drop trailing whitespace
rstrip(s) ==
    IF s # <<>> /\ s[Len(s)] \in Whitespace
        THEN rstrip(SubSeq(s, 1, Len(s) - 1))
        ELSE s

\* a bug: only the leading whitespace is removed
strip_LeadingOnly(s) == lstrip(s)

\* str.strip() of line 12
strip(s) == rstrip(lstrip(s))

\* the concatenation of a sequence of texts, as a function so that each
\* half is computed once
ConcatF[ss \in Seq(Seq(STRING))] ==
    IF Len(ss) = 0 THEN <<>>
    ELSE IF Len(ss) = 1 THEN ss[1]
    ELSE ConcatF[SubSeq(ss, 1, Len(ss) \div 2)]
            \o ConcatF[SubSeq(ss, Len(ss) \div 2 + 1, Len(ss))]

Concat(ss) == ConcatF[ss]

\* sep.join(ss)
Join(sep, ss) ==
    Concat([i \in 1..Len(ss) |-> IF i = 1 THEN ss[i] ELSE sep \o ss[i]])

----------------------------------------------------------------------------
(* Exceptions *)

\* the parent class of each exception class the model raises
Base(cls) ==
    CASE cls = "UnicodeDecodeError"  -> "ValueError"
      [] cls = "ModuleNotFoundError" -> "ImportError"
      [] cls = "Exception"           -> "BaseException"
      [] cls = "BaseException"       -> "object"
      [] OTHER                       -> "Exception"

RECURSIVE IsSubclass(_, _)
IsSubclass(cls, of) ==
    IF cls = of THEN TRUE
    ELSE IF cls = "object" THEN FALSE
    ELSE IsSubclass(Base(cls), of)

PyException(cls, args) == [cls |-> cls, args |-> args]

\* a bug: the message is dropped
Str_Dropped(x) == <<>>

\* str(e): BaseException.__str__ with no argument or one string argument
Str(x) == IF x.args = <<>> THEN <<>> ELSE x.args[1]

NoInputMsg ==
    <<"N", "o", " ", "i", "n", "p", "u", "t", " ", "t", "e", "x", "t", " ",
      "p", "r", "o", "v", "i", "d", "e", "d">>

\* the message of the UnicodeDecodeError sys.stdin.read() raises on byte 0xff
DecodeErrorMsg ==
    <<"'", "u", "t", "f", "-", "8", "'", " ", "c", "o", "d", "e", "c", " ",
      "c", "a", "n", "'", "t", " ", "d", "e", "c", "o", "d", "e", " ",
      "b", "y", "t", "e", " ", "0", "x", "f", "f", " ", "i", "n", " ",
      "p", "o", "s", "i", "t", "i", "o", "n", " ", "0", ":", " ",
      "i", "n", "v", "a", "l", "i", "d", " ", "s", "t", "a", "r", "t", " ",
      "b", "y", "t", "e">>

\* a library message with a quote, a newline and a backslash in it
LibraryMsg == <<"b", "a", "d", " ", "\"", "x", "\"", "\n", "\\">>

\* the message of the TypeError json.dumps raises on a bytes object
NotSerializableMsg ==
    <<"O", "b", "j", "e", "c", "t", " ", "o", "f", " ", "t", "y", "p", "e",
      " ", "b", "y", "t", "e", "s", " ", "i", "s", " ", "n", "o", "t", " ",
      "J", "S", "O", "N", " ", "s", "e", "r", "i", "a", "l", "i", "z", "a",
      "b", "l", "e">>

\* the message of an OSError raised by a write
WriteErrorMsg ==
    <<"[", "E", "r", "r", "n", "o", " ", "5", "]", " ", "I", "n", "p", "u",
      "t", "/", "o", "u", "t", "p", "u", "t", " ", "e", "r", "r", "o", "r">>

\* a bug: the handler catches ValueError only
Catches_ValueErrorOnly(x) == IsSubclass(x.cls, "ValueError")

\* `except Exception` of line 19
Catches(x) == IsSubclass(x.cls, "Exception")

----------------------------------------------------------------------------
(* json.dumps with its defaults (ensure_ascii, separators ", " and ": ") *)

PyStr(s) == [type |-> "str", str |-> s, list |-> <<>>]
PyList(l) == [type |-> "list", str |-> <<>>, list |-> l]
PyDict(key, value) == [key |-> key, value |-> value]

KeywordsKey == <<"k", "e", "y", "w", "o", "r", "d", "s">>
ErrorKey == <<"e", "r", "r", "o", "r">>

\* json.encoder.py_encode_basestring_ascii, one character
EscapeChar(c) ==
    CASE c = "\""     -> <<"\\", "\"">>
      [] c = "\\"     -> <<"\\", "\\">>
      [] c = "\n"     -> <<"\\", "n">>
      [] c = "\t"     -> <<"\\", "t">>
      [] c = "U+00E9" -> <<"\\", "u", "0", "0", "e", "9">>
      [] OTHER        -> <<c>>

\* a bug: the string is quoted but its characters are not escaped
encode_str_Raw(s) == <<"\"">> \o s \o <<"\"">>

encode_str(s) ==
    <<"\"">> \o Concat([i \in 1..Len(s) |-> EscapeChar(s[i])]) \o <<"\"">>

\* a list of strings, its items separated by ", "
encode_list(l) ==
    <<"[">>
        \o Concat([i \in 1..Len(l) |->
                      IF i = 1 THEN encode_str(l[i])
                      ELSE <<",", " ">> \o encode_str(l[i])])
        \o <<"]">>

encode_value(v) ==
    IF v.type = "list" THEN encode_list(v.list) ELSE encode_str(v.str)

\* json.dumps of a dict with one string key
json_dumps(d) ==
    <<"{">> \o encode_str(d.key) \o <<":", " ">> \o encode_value(d.value)
        \o <<"}">>

\* a phrase that is not a str but a bytes object
NotAString == <<"<bytes>">>

\* json.dumps can encode every item of the list
Serializable(l) == \A i \in 1..Len(l) : l[i] # NotAString

\* print(x): the text and a newline, appended to standard output
print(out, text) == out \o text \o <<"\n">>

----------------------------------------------------------------------------
(* The extraction library, as the script uses it *)

\* the two keyword arguments of line 6
n == 2
top == 10

KeywordExtractor(max_ngram, max_top) == [n |-> max_ngram, top |-> max_top]

\* a bug: three-word phrases are requested
kw_extractor_ThreeWords == KeywordExtractor(3, top)

\* a bug: eleven phrases are requested
kw_extractor_Eleven == KeywordExtractor(n, 11)

\* line 6: the extractor every call builds
kw_extractor == KeywordExtractor(n, top)

\* words the library may find
Words == {<<"a">>, <<"U+00E9">>}

\* phrases of one to k words
Phrases(k) ==
    {Join(<<" ">>, ws) : ws \in UNION {[1..j -> Words] : j \in 1..k}}

\* what the library may return as a phrase
Candidates(k) == Phrases(k) \cup {NotAString}

\* a ranked list of len (phrase, score) pairs: h first, then t
Ranking(h, t, len) == [i \in 1..len |-> <<IF i = 1 THEN h ELSE t, i>>]

\* what an extractor built with (n, top) may return: no pair, one, two or
\* as many as `top` allows
Rankings(x) ==
    {Ranking(h, t, len) : h \in Candidates(x.n), t \in Candidates(x.n),
                          len \in {0, 1, 2, x.top}}

\* what the library may raise
LibraryErrors ==
    {PyException(c, a) : c \in {"ValueError", "RuntimeError"},
                         a \in {<<>>, <<LibraryMsg>>}}

\* line 7: the outcomes of kw_extractor.extract_keywords(text)
LibraryOutcomes(x, text) ==
    {[raises |-> FALSE, ret |-> r, exc |-> PyException("Exception", <<>>)]
        : r \in Rankings(x)}
    \cup {[raises |-> TRUE, ret |-> <<>>, exc |-> x2] : x2 \in LibraryErrors}

\* a bug: the best phrase is dropped
phrase_strings_DropFirst(kws) == [i \in 1..(Len(kws) - 1) |-> kws[i + 1][1]]

\* line 8: [kw[0] for kw in keywords]
phrase_strings(kws) == [i \in 1..Len(kws) |-> kws[i][1]]

----------------------------------------------------------------------------
(* The script, line by line *)

Init ==
    /\ pc = "import"
    /\ stdin \in Stdins
    /\ input_text = <<>>
    /\ keywords = <<>>
    /\ e = <<>>
    /\ stdout = <<>>
    /\ stderr = <<>>
    /\ exit_status = <<>>
    /\ events = <<>>
    /\ calls = <<>>
    /\ returned = <<>>
    /\ raised = <<>>

\* the statement completes: control moves to `next`
Continue(next, evs) ==
    /\ pc' = next
    /\ events' = events \o evs
    /\ UNCHANGED <<e, stderr, exit_status, raised>>

\* an exception nothing catches: traceback on standard error, exit status 1
Crash(site, x, evs) ==
    /\ pc' = "exited"
    /\ events' = events \o evs \o <<"exit">>
    /\ stderr' = Append(stderr, x.cls)
    /\ exit_status' = <<1>>
    /\ raised' = Append(raised, [site |-> site, exc |-> x])
    /\ UNCHANGED e

\* an exception raised inside the try block of lines 11-17
Raise(site, x, evs) ==
    IF Catches(x)
        THEN /\ pc' = "except"
             /\ e' = <<x>>
             /\ events' = events \o evs
             /\ raised' = Append(raised, [site |-> site, exc |-> x])
             /\ UNCHANGED <<stderr, exit_status>>
        ELSE Crash(site, x, evs)

\* lines 1-3: the imports succeed
Import ==
    /\ pc = "import"
    /\ Continue("read", <<>>)
    /\ UNCHANGED <<stdin, input_text, keywords, stdout, calls, returned>>

\* line 12: input_text = sys.stdin.read().strip()
ReadStdin ==
    /\ pc = "read"
    /\ IF stdin.decodable
           THEN /\ input_text' = <<strip(stdin.text)>>
                /\ Continue("check", <<"read">>)
           ELSE /\ Raise("read",
                         PyException("UnicodeDecodeError", <<DecodeErrorMsg>>),
                         <<"read">>)
                /\ UNCHANGED input_text
    /\ UNCHANGED <<stdin, keywords, stdout, calls, returned>>

\* a bug: the emptiness test is missing
IsEmpty_Never(text) == FALSE

\* line 13: `not input_text`
IsEmpty(text) == text = <<>>

\* lines 13-14: if not input_text: raise ValueError("No input text provided")
CheckInput ==
    /\ pc = "check"
    /\ IF IsEmpty(input_text[1])
           THEN Raise("check", PyException("ValueError", <<NoInputMsg>>), <<>>)
           ELSE Continue("extract", <<>>)
    /\ UNCHANGED <<stdin, input_text, keywords, stdout, calls, returned>>

\* line 16 with lines 5-8: keywords = extract_keywords(input_text)
Extract ==
    /\ pc = "extract"
    /\ calls' = Append(calls, [n |-> kw_extractor.n, top |-> kw_extractor.top,
                               text |-> input_text[1]])
    /\ \E o \in LibraryOutcomes(kw_extractor, input_text[1]) :
          IF o.raises
              THEN /\ Raise("extract", o.exc, <<"extract">>)
                   /\ UNCHANGED <<keywords, returned>>
              ELSE /\ keywords' = <<phrase_strings(o.ret)>>
                   /\ returned' = <<o.ret>>
                   /\ Continue("print", <<"extract">>)
    /\ UNCHANGED <<stdin, input_text, stdout>>

\* line 17: print(json.dumps({"keywords": keywords}))
PrintKeywords ==
    /\ pc = "print"
    /\ IF Serializable(keywords[1])
           THEN /\ stdout' =
                      print(stdout,
                            json_dumps(PyDict(KeywordsKey,
                                              PyList(keywords[1]))))
                /\ Continue("exit", <<"write">>)
           ELSE /\ Raise("serialize",
                         PyException("TypeError", <<NotSerializableMsg>>),
                         <<>>)
                /\ UNCHANGED stdout
    /\ UNCHANGED <<stdin, input_text, keywords, calls, returned>>

\* lines 19-20: except Exception as e: print(json.dumps({"error": str(e)}))
HandleException ==
    /\ pc = "except"
    /\ stdout' = print(stdout, json_dumps(PyDict(ErrorKey, PyStr(Str(e[1])))))
    /\ Continue("exit", <<"write">>)
    /\ UNCHANGED <<stdin, input_text, keywords, calls, returned>>

\* the script falls off its end: exit status 0
Exit ==
    /\ pc = "exit"
    /\ pc' = "exited"
    /\ exit_status' = <<0>>
    /\ events' = Append(events, "exit")
    /\ UNCHANGED <<stdin, input_text, keywords, e, stdout, stderr, calls,
                   returned, raised>>

Next ==
    \/ Import
    \/ ReadStdin
    \/ CheckInput
    \/ Extract
    \/ PrintKeywords
    \/ HandleException
    \/ Exit

Spec == Init /\ [][Next]_vars

FairSpec == Spec /\ WF_vars(Next)

----------------------------------------------------------------------------
(* Failures that neither the input nor the library causes *)

\* line 3: `import yake` fails, before the try block is entered
ImportFails ==
    /\ pc = "import"
    /\ Crash("import", PyException("ModuleNotFoundError", <<>>), <<>>)
    /\ UNCHANGED <<stdin, input_text, keywords, stdout, calls, returned>>

\* line 17: the write fails before a character reaches standard output
WriteFails ==
    /\ pc = "print"
    /\ Serializable(keywords[1])
    /\ Raise("write", PyException("OSError", <<WriteErrorMsg>>), <<>>)
    /\ UNCHANGED <<stdin, input_text, keywords, stdout, calls, returned>>

\* line 20 fails: an exception raised in the handler is caught by nothing
HandleExceptionFails ==
    /\ pc = "except"
    /\ Crash("handler", PyException("OSError", <<>>), <<>>)
    /\ UNCHANGED <<stdin, input_text, keywords, stdout, calls, returned>>

FaultNext ==
    \/ Next
    \/ ImportFails
    \/ WriteFails
    \/ HandleExceptionFails

FaultSpec == Init /\ [][FaultNext]_vars

----------------------------------------------------------------------------
(* The reader's side: what the parent process sees on standard output *)

ParseFail == [ok |-> FALSE, val |-> <<>>, next |-> 0]

RECURSIVE SkipSpace(_, _)
SkipSpace(s, i) ==
    IF i <= Len(s) /\ s[i] = " " THEN SkipSpace(s, i + 1) ELSE i

\* the length of the character or escape at i inside a JSON string literal;
\* 0 when none is well formed there
UnitLen(s, i) ==
    IF s[i] \in {"\n", "\t"} THEN 0
    ELSE IF s[i] # "\\" THEN 1
    ELSE IF i + 1 > Len(s) THEN 0
    ELSE IF s[i + 1] \in {"\"", "\\", "n", "t"} THEN 2
    ELSE IF /\ s[i + 1] = "u"
            /\ i + 5 <= Len(s)
            /\ SubSeq(s, i + 2, i + 5) = <<"0", "0", "e", "9">> THEN 6
    ELSE 0

\* the character that the character or escape at i stands for
UnitChar(s, i) ==
    IF s[i] # "\\" THEN s[i]
    ELSE CASE s[i + 1] = "n" -> "\n"
           [] s[i + 1] = "t" -> "\t"
           [] s[i + 1] = "u" -> "U+00E9"
           [] OTHER          -> s[i + 1]

RECURSIVE Escaped(_, _, _)
\* inside the string literal opened at q, the character at j follows an
\* odd number of backslashes
Escaped(s, q, j) == j - 1 > q /\ s[j - 1] = "\\" /\ ~Escaped(s, q, j - 1)

\* the JSON string literal whose opening quote is at q
ParseString(s, q) ==
    LET closers == {j \in (q + 1)..Len(s) : s[j] = "\"" /\ ~Escaped(s, q, j)}
        c == CHOOSE j \in closers : \A x \in closers : j <= x
        Covered(p) ==
            \E k \in 1..4 : p - k > q /\ s[p - k] = "u" /\ Escaped(s, q, p - k)
        starts == {p \in (q + 1)..(c - 1) : ~Escaped(s, q, p) /\ ~Covered(p)}
    IN  IF ~(q <= Len(s) /\ s[q] = "\"") \/ closers = {} THEN ParseFail
        ELSE IF \E p \in starts : UnitLen(s, p) = 0 THEN ParseFail
        ELSE [ok |-> TRUE,
              val |-> Concat([p \in 1..(c - q - 1) |->
                                 IF q + p \in starts
                                     THEN <<UnitChar(s, q + p)>>
                                     ELSE <<>>]),
              next |-> c + 1]

RECURSIVE ParseItems(_, _, _)
\* the strings of a JSON array, from the start of one of them
ParseItems(s, i, acc) ==
    LET r == ParseString(s, i)
        j == SkipSpace(s, r.next)
    IN  IF ~r.ok \/ j > Len(s) THEN ParseFail
        ELSE IF s[j] = "]"
            THEN [ok |-> TRUE, val |-> Append(acc, r.val), next |-> j + 1]
        ELSE IF s[j] = ","
            THEN ParseItems(s, SkipSpace(s, j + 1), Append(acc, r.val))
        ELSE ParseFail

\* a JSON array of strings whose bracket is at i
ParseList(s, i) ==
    LET j == SkipSpace(s, i + 1)
    IN  IF j <= Len(s) /\ s[j] = "]"
            THEN [ok |-> TRUE, val |-> <<>>, next |-> j + 1]
            ELSE ParseItems(s, j, <<>>)

Invalid == [ok |-> FALSE, key |-> <<>>, value |-> PyStr(<<>>)]

\* the JSON object with exactly one key whose value is a string or an array
\* of strings that s is, or Invalid
JsonLoads(s) ==
    LET i0 == SkipSpace(s, 1)
        k == ParseString(s, SkipSpace(s, i0 + 1))
        c == SkipSpace(s, k.next)
        v0 == SkipSpace(s, c + 1)
        isList == v0 <= Len(s) /\ s[v0] = "["
        v == IF isList THEN ParseList(s, v0) ELSE ParseString(s, v0)
        z == SkipSpace(s, v.next)
    IN  IF ~(i0 <= Len(s) /\ s[i0] = "{") THEN Invalid
        ELSE IF ~k.ok THEN Invalid
        ELSE IF ~(c <= Len(s) /\ s[c] = ":") THEN Invalid
        ELSE IF ~v.ok THEN Invalid
        ELSE IF ~(z = Len(s) /\ s[z] = "}") THEN Invalid
        ELSE [ok |-> TRUE, key |-> k.val,
              value |-> IF isList THEN PyList(v.val) ELSE PyStr(v.val)]

\* out is one line: a newline ends it and no other newline is in it
OneLine(out) ==
    /\ out # <<>>
    /\ out[Len(out)] = "\n"
    /\ \A i \in 1..(Len(out) - 1) : out[i] # "\n"

\* the object a one-line output holds
Document(out) == JsonLoads(SubSeq(out, 1, Len(out) - 1))

IsWhitespaceOnly(t) == \A i \in 1..Len(t) : t[i] \in Whitespace

\* the words of a phrase: maximal runs of characters other than a space
WordCount(p) ==
    Cardinality({i \in 1..Len(p) : p[i] # " " /\ (i = 1 \/ p[i - 1] = " ")})

Exited == pc = "exited"

\* the message an error was raised with: its only argument, or nothing
MessageOf(x) == IF Len(x.args) = 1 THEN x.args[1] ELSE <<>>

----------------------------------------------------------------------------
(* Claims *)

\* the line {"error": "No input text provided"}, character by character
NoInputLine ==
    <<"{", "\"", "e", "r", "r", "o", "r", "\"", ":", " ", "\"",
      "N", "o", " ", "i", "n", "p", "u", "t", " ", "t", "e", "x", "t", " ",
      "p", "r", "o", "v", "i", "d", "e", "d", "\"", "}", "\n">>

\* C1: when standard input is empty or only whitespace, standard output at
\* exit is exactly the line {"error": "No input text provided"}.
C1_EmptyInputReported ==
    (Exited /\ stdin.decodable /\ IsWhitespaceOnly(stdin.text))
        => stdout = NoInputLine

C1_Witness ==
    /\ Exited
    /\ stdin.decodable
    /\ stdin.text = <<" ", "\n", " ">>
    /\ stdout = NoInputLine

\* C2: whatever the input and whatever the library does, standard output
\* is never more than one line, and at exit it is exactly one line that is
\* a JSON object with exactly one key, `keywords` or `error`.
C2_ExactlyOneObject ==
    /\ Exited => stdout # <<>>
    /\ stdout # <<>> =>
          LET d == Document(stdout)
          IN  OneLine(stdout) /\ d.ok /\ d.key \in {KeywordsKey, ErrorKey}

C2_Witness ==
    /\ Exited
    /\ raised # <<>>
    /\ raised[1].exc.args = <<LibraryMsg>>
    /\ OneLine(stdout)
    /\ Document(stdout).key = ErrorKey

\* the output is a keywords object of at most 10 phrases of at most 2 words
IsBoundedKeywords(out) ==
    LET d == Document(out)
    IN  /\ OneLine(out)
        /\ d.ok
        /\ d.key = KeywordsKey
        /\ d.value.type = "list"
        /\ Len(d.value.list) <= 10
        /\ \A i \in 1..Len(d.value.list) : WordCount(d.value.list[i]) <= 2

\* C3 as stated: for every input that is non-empty after trimming, the
\* output is a keywords object of 0 to 10 phrases of at most two words.
C3_AsStated ==
    (Exited /\ stdin.decodable /\ ~IsWhitespaceOnly(stdin.text))
        => IsBoundedKeywords(stdout)

\* C3 amended: for every input that is non-empty after trimming and on which
\* nothing raises in the guarded region (the extraction call returns and
\* its result is serialised), the output is a keywords object of 0 to 10
\* strings of at most two words.
C3_KeywordsWhenExtractionReturns ==
    (Exited /\ stdin.decodable /\ ~IsWhitespaceOnly(stdin.text)
            /\ raised = <<>>)
        => IsBoundedKeywords(stdout)

C3_Witness ==
    /\ Exited
    /\ stdin.decodable
    /\ ~IsWhitespaceOnly(stdin.text)
    /\ raised = <<>>
    /\ OneLine(stdout)
    /\ LET d == Document(stdout)
       IN  Len(d.value.list) = 10 /\ WordCount(d.value.list[10]) = 2

\* C4: when the extraction call raises on a non-empty input, the run exits
\* normally and its whole output is {"error": <str of the raised error>};
\* no keywords object is written.
C4_ExtractionErrorReported ==
    (Exited /\ raised # <<>> /\ raised[1].site = "extract")
        => /\ exit_status = <<0>>
           /\ stderr = <<>>
           /\ OneLine(stdout)
           /\ Document(stdout) =
                 [ok |-> TRUE, key |-> ErrorKey,
                  value |-> PyStr(MessageOf(raised[1].exc))]

C4_Witness ==
    /\ Exited
    /\ raised # <<>>
    /\ raised[1].site = "extract"
    /\ raised[1].exc = PyException("RuntimeError", <<LibraryMsg>>)
    /\ exit_status = <<0>>

NormalExit == Exited /\ exit_status = <<0>> /\ stderr = <<>>

\* C5: every run that enters the guarded region (line 12) eventually exits
\* with status 0 and nothing on standard error, also when the input is
\* empty or the extraction call fails.
C5_NormalTermination == (pc = "read") ~> NormalExit

C5_Witness ==
    /\ NormalExit
    /\ raised # <<>>
    /\ raised[1].site = "extract"

\* C6: on success (nothing raised) the emitted list is exactly the first components of the
\* pairs the extractor returned: same length, same order.
C6_KeywordsAreExtractorPhrases ==
    (Exited /\ returned # <<>> /\ raised = <<>>)
        => LET d == Document(stdout)
           IN  /\ OneLine(stdout)
               /\ d.ok
               /\ d.key = KeywordsKey
               /\ d.value.type = "list"
               /\ Len(d.value.list) = Len(returned[1])
               /\ \A i \in 1..Len(returned[1]) :
                     d.value.list[i] = returned[1][i][1]

C6_Witness ==
    /\ Exited
    /\ returned # <<>>
    /\ Len(returned[1]) = 10
    /\ returned[1][1][1] = <<"U+00E9", " ", "a">>
    /\ returned[1][2][1] = <<"a">>
    /\ Document(stdout).value.list[1] = <<"U+00E9", " ", "a">>

IsPrefix(p, q) == Len(p) <= Len(q) /\ SubSeq(q, 1, Len(p)) = p

\* C7: the events of a run are one read, at most one extraction, one write,
\* then exit, in that order; the extractor is not invoked on an input that
\* is empty after trimming nor a second time; a run in which something was
\* raised emits no keywords.
C7_EventOrder ==
    /\ \/ IsPrefix(events, <<"read", "write", "exit">>)
       \/ IsPrefix(events, <<"read", "extract", "write", "exit">>)
    /\ Exited => events[Len(events)] = "exit"
    /\ Len(calls) <= 1
    /\ calls # <<>> => (stdin.decodable /\ ~IsWhitespaceOnly(stdin.text))
    /\ (raised # <<>> /\ stdout # <<>>) => Document(stdout).key = ErrorKey

C7_Witness ==
    /\ Exited
    /\ events = <<"read", "extract", "write", "exit">>
    /\ raised # <<>>
    /\ Len(calls) = 1

\* C8: the text handed to the extractor is standard input without its
\* leading and trailing whitespace, the interior unchanged: it is not empty
\* and neither starts nor ends with whitespace.
C8_ExtractorGetsTrimmedInput ==
    \A c \in 1..Len(calls) :
        LET t == calls[c].text
            d == stdin.text
        IN  /\ t # <<>>
            /\ t[1] \notin Whitespace
            /\ t[Len(t)] \notin Whitespace
            /\ \E i \in 0..Len(d) :
                  /\ i + Len(t) <= Len(d)
                  /\ SubSeq(d, i + 1, i + Len(t)) = t
                  /\ \A j \in 1..Len(d) :
                        (j <= i \/ j > i + Len(t)) => d[j] \in Whitespace

C8_Witness ==
    /\ stdin.text = <<"\n", "a", " ", "a", " ">>
    /\ calls # <<>>
    /\ calls[1].text = <<"a", " ", "a">>

\* C9: every invocation of the extractor is made with maximum phrase length
\* 2 and at most 10 phrases, whatever the input.
C9_FixedParameters ==
    \A c \in 1..Len(calls) : calls[c].n = 2 /\ calls[c].top = 10

C9_Witness ==
    /\ Exited
    /\ Len(calls) = 1
    /\ calls[1].text = <<"a", "\n", "a">>
    /\ calls[1].n = 2

\* C10: a failure raised while reading, extracting or serialising/writing
\* the success object is reported as {"error": <str of it>} and the run
\* exits normally; a run ends with no JSON on standard output only when
\* the import or the error handler itself failed.
C10_GuardedRegion ==
    /\ (Exited /\ Len(raised) = 1
               /\ raised[1].site \in
                     {"read", "check", "extract", "serialize", "write"})
          => /\ exit_status = <<0>>
             /\ OneLine(stdout)
             /\ Document(stdout) =
                   [ok |-> TRUE, key |-> ErrorKey,
                    value |-> PyStr(MessageOf(raised[1].exc))]
    /\ (Exited /\ stdout = <<>>)
          => \E i \in 1..Len(raised) : raised[i].site \in {"import", "handler"}

C10_Witness ==
    /\ Exited
    /\ Len(raised) = 1
    /\ raised[1].site = "serialize"
    /\ raised[1].exc.cls = "TypeError"
    /\ Document(stdout).key = ErrorKey

====
